---- MODULE Spec2Model ----
(***************************************************************************)
(* Model of scripts/update.py: the batch job that, for every repository   *)
(* entry of config.json, looks up the latest GitHub release, optionally   *)
(* repacks the release archive, writes src/<repo>/changelog.md and        *)
(* src/<repo>/update.json.                                                 *)
(*                                                                         *)
(* Strings are sequences of tokens; the token "/" is the path separator    *)
(* and asset names and tags are sequences of single characters.  JSON and  *)
(* Python values are records [k, v]: k is "str", "null" (None), "int" (a   *)
(* non-string scalar) or "missing" (key absent), v the string's tokens.    *)
(***************************************************************************)
EXTENDS Integers, Sequences, FiniteSets, TLC

VARIABLES
    scope,      \* which family of inputs this run draws from
    cfgkind,    \* what main finds at config.json
    config,     \* config["repositories"]
    pc,         \* position of main
    idx,        \* index of the entry the for loop of main is at
    cur,        \* locals of the current iteration
    fs,         \* the output tree: directory -> files
    logs,       \* messages printed by log(), in order
    trace       \* history of the steps taken, per entry

vars == <<scope, cfgkind, config, pc, idx, cur, fs, logs, trace>>

\* ------------------------------------------------------------------ bounds
MaxRepos == 2
MaxTagLen == 3
MaxAssets == 2
MaxZipEntries == 2

\* ------------------------------------------------------------ JSON values
JMissing == [k |-> "missing", v |-> <<>>]
JNull == [k |-> "null", v |-> <<>>]
JInt == [k |-> "int", v |-> <<>>]
JStr(s) == [k |-> "str", v |-> s]

\* dict.get(key, default)
Get(val, default) == IF val.k = "missing" THEN default ELSE val

\* Python truthiness of None, a non-zero number, a string
Truthy(val) ==
    CASE val.k = "str" -> val.v # <<>>
      [] val.k = "int" -> TRUE
      [] OTHER -> FALSE

SeqsUpTo(S, n) == UNION {[1..m -> S] : m \in 0..n}

\* ---------------------------------------------------------------- strings
RECURSIVE RStrip(_)
\* str.rstrip('/')
RStrip(s) ==
    IF s # <<>> /\ s[Len(s)] = "/" THEN RStrip(SubSeq(s, 1, Len(s) - 1)) ELSE s

RECURSIVE SplitFrom(_, _)
\* str.split('/'), with the segment being read carried in acc
SplitFrom(s, acc) ==
    IF s = <<>> THEN <<acc>>
    ELSE IF Head(s) = "/" THEN <<acc>> \o SplitFrom(Tail(s), <<>>)
    ELSE SplitFrom(Tail(s), Append(acc, Head(s)))

Split(s) == SplitFrom(s, <<>>)

Last(q) == q[Len(q)]

\* str.lower() on the characters the model uses
LowerChar(c) ==
    CASE c = "A" -> "a"
      [] c = "Z" -> "z"
      [] c = "I" -> "i"
      [] c = "P" -> "p"
      [] OTHER -> c

Lower(s) == [i \in 1..Len(s) |-> LowerChar(s[i])]

EndsWith(s, suffix) ==
    /\ Len(s) >= Len(suffix)
    /\ SubSeq(s, Len(s) - Len(suffix) + 1, Len(s)) = suffix

\* sub in s
Contains(s, sub) ==
    \E i \in 0..(Len(s) - Len(sub)) : SubSeq(s, i + 1, i + Len(sub)) = sub

DotZip == <<".", "z", "i", "p">>

\* ------------------------------------------------------------- versionCode
DecimalDigits == <<"0", "1", "2", "3", "4", "5", "6", "7", "8", "9">>

IsDecimal(c) == \E i \in 1..Len(DecimalDigits) : DecimalDigits[i] = c

\* str.isdigit: the decimal digits and digit-like characters such as a
\* superscript two, which int() rejects
IsDigit(c) == IsDecimal(c) \/ c = "sup2"

DigitVal(c) == (CHOOSE i \in 1..Len(DecimalDigits) : DecimalDigits[i] = c) - 1

RECURSIVE ToInt(_)
\* int() of a non-empty string of decimal digits
ToInt(ds) ==
    IF ds = <<>> THEN 0
    ELSE 10 * ToInt(SubSeq(ds, 1, Len(ds) - 1)) + DigitVal(ds[Len(ds)])

VersionCodeNoFilter(tag_name) ==
    IF tag_name.k # "str" THEN 1
    ELSE IF \A i \in 1..Len(tag_name.v) : IsDecimal(tag_name.v[i])
         THEN (IF tag_name.v = <<>> THEN 1 ELSE ToInt(tag_name.v))
         ELSE 1

\* int(''.join(filter(str.isdigit, tag_name)) or "1"), 1 on any exception
VersionCode(tag_name) ==
    IF tag_name.k # "str" THEN 1
    ELSE LET digits == SelectSeq(tag_name.v, IsDigit)
         IN  IF digits = <<>> THEN 1
             ELSE IF \A i \in 1..Len(digits) : IsDecimal(digits[i])
                  THEN ToInt(digits)
                  ELSE 1

DefaultTag == JStr(<<"v", "1", ".", "0">>)
DefaultBody == JStr(<<"n", "o", "n", "e">>)

\* ---------------------------------------------------------- asset selection
Qualifies(asset, keyword) ==
    /\ EndsWith(asset.name, DotZip)
    /\ Truthy(keyword) => Contains(Lower(asset.name), keyword.v)

SelectAssetIgnoreKeyword(assets, keyword) ==
    LET hits == SelectSeq(assets, LAMBDA a : EndsWith(a.name, DotZip))
    IN  IF hits = <<>> THEN JNull ELSE JStr(hits[1].browser_download_url)

\* the loop over release_data["assets"] (keyword given) or next(...) (no keyword)
SelectAsset(assets, keyword) ==
    LET hits == SelectSeq(assets, LAMBDA a : Qualifies(a, keyword))
    IN  IF hits = <<>> THEN JNull ELSE JStr(hits[1].browser_download_url)

\* ------------------------------------------------------------------ repack
ZIP_STORED == "ZIP_STORED"
ZIP_DEFLATED == "ZIP_DEFLATED"
ModuleProp == <<"module.prop">>

RepackEntriesKeepCompression(archive) ==
    LET readable == SelectSeq(archive, LAMBDA item : item.readable)
    IN  [i \in 1..Len(readable) |->
            [name |-> readable[i].name, compress_type |-> readable[i].compress_type]]

\* the copy loop of repack_module: an entry whose read raises is skipped
RepackEntries(archive) ==
    LET readable == SelectSeq(archive, LAMBDA item : item.readable)
    IN  [i \in 1..Len(readable) |->
            [name |-> readable[i].name, compress_type |-> ZIP_STORED]]

\* zip_check.namelist()
NameList(zip) == {zip[i].name : i \in 1..Len(zip)}

PropFoundInverted(zip) == ModuleProp \notin NameList(zip)

\* 'module.prop' in zip_check.namelist(), which decides the warning
PropFound(zip) == ModuleProp \in NameList(zip)

\* ------------------------------------------------------------------- paths
RawPrefix == <<"https://raw.githubusercontent.com/misak10/mmrl-update/main/">>

\* f"src/{repo_name}"
SrcDir(name) == <<"src", "/">> \o name

\* the directory a path names on disk: empty segments do not count
NormDir(path) == SelectSeq(Split(path), LAMBDA seg : seg # <<>>)

\* f"https://raw.githubusercontent.com/misak10/mmrl-update/main/src/{name}/{file}"
MirrorUrl(name, file) == RawPrefix \o SrcDir(name) \o <<"/", file>>

\* ------------------------------------------------------------ the universes
UrlA == <<"https:", "/", "/", "github.com", "/", "u", "/", "ra">>
UrlB == <<"https:", "/", "/", "github.com", "/", "u", "/", "rb">>
UrlASlash == UrlA \o <<"/">>
UrlBSlash == UrlB \o <<"/">>
UrlShort == <<"u", "/", "ra">>

Entry(url, keyword, repack) == [url |-> url, keyword |-> keyword, repack |-> repack]

BatchUrls == {JMissing, JInt, JStr(UrlA), JStr(UrlASlash), JStr(UrlBSlash), JStr(UrlShort)}
BatchEntries == {Entry(u, JMissing, r) : u \in BatchUrls, r \in BOOLEAN}

Asset(name, url) == [name |-> name, browser_download_url |-> url]
AssetApk == Asset(<<"a", ".", "a", "p", "k">>, <<"dl-a.apk">>)
AssetZipA == Asset(<<"A", ".", "z", "i", "p">>, <<"dl-A.zip">>)
AssetZipB == Asset(<<"b", ".", "z", "i", "p">>, <<"dl-b.zip">>)
AssetUpper == Asset(<<"a", ".", "Z", "I", "P">>, <<"dl-a.ZIP">>)
AssetPool == {AssetApk, AssetZipA, AssetZipB, AssetUpper}
AllKeywords == {JMissing, JNull, JStr(<<>>), JStr(<<"a">>), JStr(<<"A">>)}

TagChars == {"v", ".", "0", "1", "2", "sup2"}
TagV12 == JStr(<<"v", "1", ".", "2">>)
TagV123 == JStr(<<"v", "1", ".", "2", ".", "3">>)
Notes == JStr(<<"release", " ", "notes">>)

Release(tag, assets, body) == [tag_name |-> tag, assets |-> assets, body |-> body]

ZipItem(name, ctype, readable) ==
    [name |-> name, compress_type |-> ctype, readable |-> readable]
ZipEntryPool ==
    {ZipItem(n, c, r) : n \in {ModuleProp, <<"service.sh">>},
                        c \in {ZIP_STORED, ZIP_DEFLATED}, r \in BOOLEAN}

Scopes == {"batch", "release", "tags", "assets", "zip"}

Configs(sc) ==
    CASE sc = "batch" -> SeqsUpTo(BatchEntries, MaxRepos)
      [] sc = "release" ->
            {<<Entry(JStr(UrlA), k, r)>> : k \in {JMissing, JStr(<<"a">>)}, r \in BOOLEAN}
      [] sc = "tags" -> {<<Entry(JStr(UrlA), JMissing, FALSE)>>}
      [] sc = "assets" -> {<<Entry(JStr(UrlA), k, FALSE)>> : k \in AllKeywords}
      [] sc = "zip" -> {<<Entry(JStr(UrlA), JMissing, TRUE)>>}

Releases(sc) ==
    CASE sc = "batch" -> {Release(TagV12, <<>>, Notes), Release(TagV12, <<AssetZipA>>, Notes)}
      [] sc = "release" ->
            {Release(t, a, b) : t \in {JMissing, JNull, TagV12},
                                a \in {<<>>, <<AssetZipB, AssetZipA>>},
                                b \in {JMissing, JNull, Notes}}
      [] sc = "tags" ->
            {Release(t, <<AssetZipA>>, Notes) :
                t \in {JMissing, JNull, JInt, TagV123}
                      \cup {JStr(s) : s \in SeqsUpTo(TagChars, MaxTagLen)}}
      [] sc = "assets" ->
            {Release(TagV12, a, Notes) : a \in SeqsUpTo(AssetPool, MaxAssets)}
      [] sc = "zip" -> {Release(TagV12, <<AssetZipA>>, Notes)}

\* what requests.get(api_url) can give: an exception, a status other than 200,
\* or 200 with a release record
Responses(sc) ==
    {[kind |-> "exception", status |-> 0, release |-> Release(JMissing, <<>>, JMissing)],
     [kind |-> "http", status |-> 404, release |-> Release(JMissing, <<>>, JMissing)]}
    \cup {[kind |-> "http", status |-> 200, release |-> r] : r \in Releases(sc)}

\* what the download of the archive can give: a failure (request error, bad
\* status, not a zip file) or the entries of the archive
Downloads(sc) ==
    {[ok |-> FALSE, archive |-> <<>>]}
    \cup {[ok |-> TRUE, archive |-> a] :
            a \in IF sc = "zip" THEN SeqsUpTo(ZipEntryPool, MaxZipEntries)
                  ELSE {<<ZipItem(ModuleProp, ZIP_DEFLATED, TRUE)>>,
                        <<ZipItem(<<"service.sh">>, ZIP_DEFLATED, TRUE)>>}}

\* whether open(path, "w") succeeds
IoOutcomes(sc) == IF sc \in {"batch", "release"} THEN BOOLEAN ELSE {TRUE}

\* ----------------------------------------------------------------- the state
OldManifest ==
    [version |-> JStr(<<"old">>), versionCode |-> 0,
     zipUrl |-> JStr(<<"old">>), changelog |-> JStr(<<"old">>)]
OldFiles ==
    [update |-> OldManifest, changelog |-> <<"old", " ", "notes">>,
     module |-> <<[name |-> <<"old">>, compress_type |-> ZIP_DEFLATED]>>]

RepoNames == {<<>>, <<"ra">>, <<"rb">>}
AllDirs == {NormDir(SrcDir(n)) : n \in RepoNames}

NoCur ==
    [repo_name |-> <<>>, repo |-> <<>>, release |-> Release(JMissing, <<>>, JMissing),
     zip_url |-> JNull, tag_name |-> JNull, version_code |-> 0,
     update_info |-> [version |-> JNull, versionCode |-> 0,
                      zipUrl |-> JNull, changelog |-> JNull],
     archive |-> <<>>]

NoDir == <<>>
NoResp == [kind |-> "none", status |-> 0, release |-> Release(JMissing, <<>>, JMissing)]
Event(i, ev, dir) == [i |-> i, ev |-> ev, dir |-> dir, resp |-> NoResp]
LookupEvent(i, ev, resp) == [i |-> i, ev |-> ev, dir |-> NoDir, resp |-> resp]

Init ==
    /\ scope \in Scopes
    /\ cfgkind \in IF scope = "batch"
                   THEN {"nofile", "badjson", "notdict", "norepos", "ok"}
                   ELSE {"ok"}
    /\ config \in IF cfgkind = "ok" THEN Configs(scope) ELSE {<<>>}
    /\ pc = "start"
    /\ idx = 1
    /\ cur = NoCur
    /\ fs = [d \in AllDirs |-> OldFiles]
    /\ logs = <<>>
    /\ trace = <<>>

\* ------------------------------------------------------------------ helpers
Log(msgs) == logs' = logs \o msgs
Record(evs) == trace' = trace \o evs

\* repo_info.get("url", "").split("/")[-1]; None when .split is no method of the value
MainRepoName(entry) ==
    LET url == Get(entry.url, JStr(<<>>))
    IN  IF url.k = "str" THEN JStr(Last(Split(url.v))) ELSE JNull

\* the checks on repo_url and the unpacking of repo_url.rstrip('/').split('/')
UrlOk(entry) ==
    /\ entry.url.k = "str"
    /\ entry.url.v # <<>>
    /\ Len(Split(RStrip(entry.url.v))) = 5

\* repo of  _, _, _, username, repo = repo_url.rstrip('/').split('/')
RepoOf(entry) == Split(RStrip(entry.url.v))[5]

\* repo_name = repo_url.split("/")[-1] of get_latest_release
ChangelogRepoName(entry) == Last(Split(entry.url.v))

AfterLookupIgnoreFlag(entry) == "repack"

\* if repack: zip_url = repack_module(zip_url, repo)
AfterLookup(entry) == IF entry.repack THEN "repack" ELSE "changelog"

\* what open(changelog_path, "w") and f.write(changelog_body) leave in the file:
\* the old content when open fails, nothing when write raises on a non-string
ChangelogContent(old, body, io) ==
    IF ~io THEN old ELSE IF body.k = "str" THEN body.v ELSE <<>>

ChangelogWritten(body, io) == io /\ body.k = "str"

\* update_info as returned by get_latest_release
UpdateInfo(tag_name, version_code, zip_url, changelog_url) ==
    [version |-> tag_name, versionCode |-> version_code,
     zipUrl |-> zip_url, changelog |-> JStr(changelog_url)]

\* the else branch of main: the entry is given up and the loop goes on
FailEntry(msgs, evs) ==
    /\ Log(msgs \o <<"Failed to update">>)
    /\ Record(evs)
    /\ idx' = idx + 1
    /\ pc' = "loop"
    /\ cur' = NoCur
    /\ UNCHANGED <<scope, cfgkind, config, fs>>

\* ------------------------------------------------------------------ actions
\* main up to the for loop: config.json is found, loaded and validated
Start ==
    /\ pc = "start"
    /\ IF cfgkind = "ok"
       THEN pc' = "loop" /\ UNCHANGED logs
       ELSE pc' = "done" /\ Log(<<cfgkind>>)
    /\ UNCHANGED <<scope, cfgkind, config, idx, cur, fs, trace>>

\* for repo_info in config["repositories"]: repo_name = ...
MainIter ==
    /\ pc = "loop"
    /\ idx <= Len(config)
    /\ LET name == MainRepoName(config[idx])
       IN  IF name.k = "str"
           THEN /\ pc' = "lookup"
                /\ cur' = [NoCur EXCEPT !.repo_name = name.v]
                /\ UNCHANGED trace
           ELSE /\ pc' = "crashed"
                /\ Record(<<Event(idx, "crash", NoDir)>>)
                /\ UNCHANGED cur
    /\ UNCHANGED <<scope, cfgkind, config, idx, fs, logs>>

\* get_latest_release returning None before any request
LookupInvalid ==
    /\ pc = "lookup"
    /\ ~UrlOk(config[idx])
    /\ FailEntry(<<"Invalid repo url">>, <<Event(idx, "lookup_failed", NoDir)>>)

\* get_latest_release from the request to the version code
LookupFetch ==
    /\ pc = "lookup"
    /\ UrlOk(config[idx])
    /\ \E resp \in Responses(scope) :
        LET entry == config[idx]
            keyword == Get(entry.keyword, JStr(<<>>))
            zip_url == SelectAsset(resp.release.assets, keyword)
            tag_name == Get(resp.release.tag_name, DefaultTag)
        IN  IF resp.kind = "exception"
            THEN FailEntry(<<"[get_latest_release] Failed">>,
                           <<LookupEvent(idx, "lookup_failed", resp)>>)
            ELSE IF resp.status # 200
            THEN FailEntry(<<"GitHub API error">>,
                           <<LookupEvent(idx, "lookup_failed", resp)>>)
            ELSE IF ~Truthy(zip_url)
            THEN FailEntry(<<"No zip asset found">>,
                           <<LookupEvent(idx, "lookup_failed", resp)>>)
            ELSE /\ cur' = [cur EXCEPT !.repo = RepoOf(entry),
                                       !.release = resp.release,
                                       !.zip_url = zip_url,
                                       !.tag_name = tag_name,
                                       !.version_code = VersionCode(tag_name)]
                 /\ pc' = AfterLookup(entry)
                 /\ Record(<<LookupEvent(idx, "lookup", resp)>>)
                 /\ UNCHANGED <<scope, cfgkind, config, idx, fs, logs>>

\* repack_module and the test of its result in get_latest_release
Repack ==
    /\ pc = "repack"
    /\ \E dl \in Downloads(scope) :
        LET dir == NormDir(SrcDir(cur.repo))
            out == RepackEntries(dl.archive)
            found == PropFound(out)
        IN  IF ~dl.ok
            THEN FailEntry(<<"[repack_module] Failed", "Repack failed">>,
                           <<Event(idx, "repack_failed", NoDir)>>)
            ELSE /\ fs' = [fs EXCEPT ![dir].module = out]
                 /\ Log(IF found THEN <<"module.prop content">>
                        ELSE <<"Warning: module.prop not found", "Error reading module.prop">>)
                 /\ cur' = [cur EXCEPT !.zip_url = JStr(MirrorUrl(cur.repo, "module.zip")),
                                       !.archive = dl.archive]
                 /\ pc' = "changelog"
                 /\ Record(<<Event(idx, "repack", dir)>>)
                 /\ UNCHANGED <<scope, cfgkind, config, idx>>

\* get_latest_release from update_info to its return
WriteChangelog ==
    /\ pc = "changelog"
    /\ \E io \in IoOutcomes(scope) :
        LET repo_name == ChangelogRepoName(config[idx])
            dir == NormDir(SrcDir(repo_name))
            body == Get(cur.release.body, DefaultBody)
        IN  /\ fs' = [fs EXCEPT ![dir].changelog = ChangelogContent(@, body, io)]
            /\ Log(IF ChangelogWritten(body, io) THEN <<>>
                   ELSE <<"Failed to write changelog">>)
            /\ cur' = [cur EXCEPT !.update_info =
                          UpdateInfo(cur.tag_name, cur.version_code, cur.zip_url,
                                     MirrorUrl(repo_name, "changelog.md"))]
            /\ Record(<<Event(idx, IF ChangelogWritten(body, io) THEN "changelog"
                                   ELSE "changelog_failed", dir)>>)
    /\ pc' = "manifest"
    /\ UNCHANGED <<scope, cfgkind, config, idx>>

WriteManifestKeepOld ==
    /\ pc = "manifest"
    /\ \E io \in IoOutcomes(scope) :
        LET dir == NormDir(SrcDir(cur.repo_name))
        IN  IF io
            THEN /\ Log(<<"Updated successfully">>)
                 /\ Record(<<Event(idx, "manifest", dir)>>)
            ELSE /\ Log(<<"Failed to write update.json">>)
                 /\ Record(<<Event(idx, "manifest_failed", dir)>>)
    /\ idx' = idx + 1
    /\ pc' = "loop"
    /\ cur' = NoCur
    /\ UNCHANGED <<scope, cfgkind, config, fs>>

\* main: if update_info: write src/<repo_name>/update.json
WriteManifest ==
    /\ pc = "manifest"
    /\ \E io \in IoOutcomes(scope) :
        LET dir == NormDir(SrcDir(cur.repo_name))
        IN  IF io
            THEN /\ fs' = [fs EXCEPT ![dir].update = cur.update_info]
                 /\ Log(<<"Updated successfully">>)
                 /\ Record(<<Event(idx, "manifest", dir)>>)
            ELSE /\ Log(<<"Failed to write update.json">>)
                 /\ Record(<<Event(idx, "manifest_failed", dir)>>)
                 /\ UNCHANGED fs
    /\ idx' = idx + 1
    /\ pc' = "loop"
    /\ cur' = NoCur
    /\ UNCHANGED <<scope, cfgkind, config>>

\* the for loop is exhausted and main returns
MainExit ==
    /\ pc = "loop"
    /\ idx > Len(config)
    /\ pc' = "done"
    /\ UNCHANGED <<scope, cfgkind, config, idx, cur, fs, logs, trace>>

Next ==
    \/ Start
    \/ MainIter
    \/ LookupInvalid
    \/ LookupFetch
    \/ Repack
    \/ WriteChangelog
    \/ WriteManifest
    \/ MainExit

Spec == Init /\ [][Next]_vars

\* ------------------------------------------------------------ the claims
EventsOf(i) == SelectSeq(trace, LAMBDA e : e.i = i)
Has(i, ev) == \E k \in 1..Len(trace) : trace[k].i = i /\ trace[k].ev = ev
Count(i, ev) == Len(SelectSeq(trace, LAMBDA e : e.i = i /\ e.ev = ev))
InEntry == pc \in {"lookup", "repack", "changelog", "manifest"}
Repacked == pc \in {"changelog", "manifest"} /\ config[idx].repack
ModuleDir == NormDir(SrcDir(cur.repo))
WrittenThisRun(d) == \E k \in 1..Len(trace) : trace[k].ev = "manifest" /\ trace[k].dir = d

\* C1: every update.json written by this run has non-null fields: version,
\* zipUrl and changelog are strings and versionCode is an integer.
C1_ManifestFieldsNonNull ==
    \A d \in AllDirs :
        WrittenThisRun(d) =>
            /\ fs[d].update.version.k = "str"
            /\ fs[d].update.zipUrl.k = "str"
            /\ fs[d].update.changelog.k = "str"
            /\ fs[d].update.versionCode \in Int

\* C2 as stated: when main has returned, update.json has been written exactly
\* once for every entry of the configuration.
C2_ExactlyOncePerEntry ==
    pc = "done" => \A i \in 1..Len(config) : Count(i, "manifest") = 1

EntrySucceeded(i) ==
    /\ Has(i, "lookup")
    /\ config[i].repack => Has(i, "repack")
    /\ Has(i, "changelog") \/ Has(i, "changelog_failed")
    /\ ~Has(i, "manifest_failed")

Completed(i) == i < idx

\* C2 amended: update.json is written at most once per entry; exactly once
\* for an entry whose lookup (and repack, when enabled) succeeded and whose
\* file could be opened, not at all for any other entry; a directory's
\* manifest is the previous run's exactly when no entry wrote it.
C2_OncePerSucceededEntry ==
    /\ \A i \in 1..Len(config) :
        /\ Count(i, "manifest") <= 1
        /\ Count(i, "manifest") = 1 => EntrySucceeded(i)
        /\ (Completed(i) /\ EntrySucceeded(i)) => Count(i, "manifest") = 1
    /\ \A d \in AllDirs : (fs[d].update = OldManifest) <=> ~WrittenThisRun(d)

C2_Witness ==
    /\ pc = "done"
    /\ Len(config) = 2
    /\ Count(1, "manifest") = 0
    /\ Has(1, "repack_failed")
    /\ Count(2, "manifest") = 1
    /\ fs[NormDir(SrcDir(<<"ra">>))].update # OldManifest

\* C3: a step that writes update.json finds src/<repo>/changelog.md holding
\* the body of the release the manifest is written for.
C3_ChangelogFreshAtManifestWrite ==
    [][\A d \in AllDirs :
          (pc = "manifest" /\ fs'[d].update # fs[d].update) =>
             LET body == Get(cur.release.body, DefaultBody)
             IN  body.k = "str" /\ fs[d].changelog = body.v]_vars

\* C4: after repack_module has returned a URL, every entry of the written
\* module.zip is ZIP_STORED, whatever the downloaded entries used.
C4_RepackedAllStored ==
    /\ Repacked =>
        /\ Len(fs[ModuleDir].module) = Len(SelectSeq(cur.archive, LAMBDA it : it.readable))
        /\ \A k \in 1..Len(fs[ModuleDir].module) :
              fs[ModuleDir].module[k].compress_type = ZIP_STORED
    /\ \A d \in AllDirs :
        (\E k \in 1..Len(trace) : trace[k].ev = "repack" /\ trace[k].dir = d) =>
            \A k \in 1..Len(fs[d].module) : fs[d].module[k].compress_type = ZIP_STORED

C4_Witness ==
    /\ Repacked
    /\ Len(fs[ModuleDir].module) = 2
    /\ \A k \in 1..2 : /\ cur.archive[k].compress_type = ZIP_DEFLATED
                       /\ cur.archive[k].readable

\* C5 as stated: after repack_module has returned a URL, the written
\* module.zip has an entry named module.prop.
C5_RepackedHasModuleProp ==
    Repacked => ModuleProp \in NameList(fs[ModuleDir].module)

HasReadableProp(archive) ==
    \E k \in 1..Len(archive) : archive[k].name = ModuleProp /\ archive[k].readable

\* C5 amended: repack_module checks for module.prop and logs a warning when
\* it is absent, but returns the URL either way; the written module.zip has
\* the entry exactly when the downloaded archive has a readable one.
C5_ModulePropCheckedNotEnforced ==
    Repacked =>
        /\ ModuleProp \in NameList(fs[ModuleDir].module) <=> HasReadableProp(cur.archive)
        /\ pc = "changelog" =>
              (Last(logs) = "Error reading module.prop" <=> ~HasReadableProp(cur.archive))
        /\ pc = "changelog" =>
              (Last(logs) = "module.prop content" <=> HasReadableProp(cur.archive))
        /\ cur.zip_url = JStr(RawPrefix \o <<"src", "/">> \o cur.repo \o <<"/", "module.zip">>)

C5_Witness ==
    /\ pc = "manifest"
    /\ config[idx].repack
    /\ cur.archive # <<>>
    /\ ModuleProp \notin NameList(fs[ModuleDir].module)
    /\ \E k \in 1..Len(logs) : logs[k] = "Warning: module.prop not found"
    /\ cur.update_info.zipUrl = JStr(MirrorUrl(cur.repo, "module.zip"))

Terminal == {"lookup_failed", "repack_failed", "manifest", "manifest_failed", "crash"}
ChangelogEvs == {"changelog", "changelog_failed"}
ManifestEvs == {"manifest", "manifest_failed"}
RepackEvs == {"repack", "repack_failed"}

\* the assets of a release that the claim C8 lets be selected, by position
Candidates(assets, keyword) ==
    {k \in 1..Len(assets) :
        /\ EndsWith(assets[k].name, DotZip)
        /\ (keyword.k = "str" /\ keyword.v # <<>>) =>
              Contains(Lower(assets[k].name), keyword.v)}

FirstCandidate(assets, keyword) ==
    assets[CHOOSE k \in Candidates(assets, keyword) :
              \A m \in Candidates(assets, keyword) : k <= m]

\* the steps of entry i, in the order they were taken, follow
\* lookup, [repack], changelog, manifest
StepsInOrder(i) ==
    LET evs == EventsOf(i)
    IN  \A k \in 1..Len(evs) :
          /\ k = 1 => evs[k].ev \in {"lookup", "lookup_failed", "crash"}
          /\ evs[k].ev \in {"lookup", "lookup_failed", "crash"} => k = 1
          /\ evs[k].ev \in RepackEvs =>
                /\ config[i].repack
                /\ k = 2
                /\ evs[1].ev = "lookup"
                /\ Candidates(evs[1].resp.release.assets, config[i].keyword) # {}
          /\ evs[k].ev \in ChangelogEvs =>
                /\ k > 1
                /\ evs[k - 1].ev = IF config[i].repack THEN "repack" ELSE "lookup"
                /\ evs[1].ev = "lookup"
          /\ evs[k].ev \in ManifestEvs => k > 1 /\ evs[k - 1].ev \in ChangelogEvs

\* C6: per entry the steps are lookup, then repack (only with the flag, only
\* after an asset was selected), then changelog, then manifest; changelog and
\* manifest are not written before lookup and an enabled repack succeeded;
\* an entry starts only after the entry before it has finished; and every
\* file that differs from the previous run's was written by such a step.
C6_StepOrder ==
    /\ \A i \in 1..Len(config) : StepsInOrder(i)
    /\ \A k \in 1..Len(trace) :
          /\ trace[k].i \in 1..Len(config)
          /\ k < Len(trace) =>
                \/ trace[k].i = trace[k + 1].i /\ trace[k].ev \notin Terminal
                \/ trace[k].i + 1 = trace[k + 1].i /\ trace[k].ev \in Terminal
    /\ \A d \in AllDirs :
          /\ fs[d].module # OldFiles.module =>
                \E k \in 1..Len(trace) : trace[k].ev = "repack" /\ trace[k].dir = d
          /\ fs[d].changelog # OldFiles.changelog =>
                \E k \in 1..Len(trace) : trace[k].ev \in ChangelogEvs /\ trace[k].dir = d
          /\ fs[d].update # OldFiles.update =>
                \E k \in 1..Len(trace) : trace[k].ev = "manifest" /\ trace[k].dir = d
    /\ pc = "repack" => config[idx].repack /\ cur.zip_url.k = "str"

C6_Witness ==
    /\ pc = "done"
    /\ Len(config) = 2
    /\ config[1].repack
    /\ ~config[2].repack
    /\ [k \in 1..Len(trace) |-> trace[k].ev] =
          <<"lookup", "repack", "changelog", "manifest", "lookup", "changelog", "manifest">>

\* the release an entry's lookup returned
ReleaseOf(i) == (CHOOSE e \in {trace[k] : k \in 1..Len(trace)} :
                    e.i = i /\ e.ev = "lookup").resp.release

\* the entries that wrote update.json into directory d
Writers(d) == {trace[k].i : k \in {m \in 1..Len(trace) :
                                     trace[m].ev = "manifest" /\ trace[m].dir = d}}
LastWriter(d) == CHOOSE i \in Writers(d) : \A j \in Writers(d) : j <= i

DecimalValue(c) ==
    CASE c = "0" -> 0 [] c = "1" -> 1 [] c = "2" -> 2 [] c = "3" -> 3 [] c = "4" -> 4
      [] c = "5" -> 5 [] c = "6" -> 6 [] c = "7" -> 7 [] c = "8" -> 8 [] c = "9" -> 9

RECURSIVE Pow10(_)
Pow10(n) == IF n = 0 THEN 1 ELSE 10 * Pow10(n - 1)

RECURSIVE SumOver(_, _, _)
\* the sum, over the positions P of digits in s, of digit * 10^(digits to its right)
SumOver(P, s, all) ==
    IF P = {} THEN 0
    ELSE LET k == CHOOSE x \in P : TRUE
         IN  DecimalValue(s[k]) * Pow10(Cardinality({m \in all : m > k}))
             + SumOver(P \ {k}, s, all)

\* versionCode as the claim C7 states it
ClaimedVersionCode(tag) ==
    IF tag.k = "missing" THEN 10
    ELSE IF tag.k # "str" THEN 1
    ELSE LET P == {k \in 1..Len(tag.v) :
                     tag.v[k] \in {"0", "1", "2", "3", "4", "5", "6", "7", "8", "9"}}
         IN  IF P = {} \/ (\E k \in 1..Len(tag.v) : tag.v[k] = "sup2")
             THEN 1
             ELSE SumOver(P, tag.v, P)

ClaimedVersion(tag) == IF tag.k = "missing" THEN JStr(<<"v", "1", ".", "0">>) ELSE tag

\* C7: the manifest's versionCode is the number spelt by the digits of
\* tag_name, 1 when there is none or they do not convert, 10 for a release
\* without tag_name; its version is the tag_name unchanged.
C7_VersionCodeFromTag ==
    /\ pc = "manifest" =>
          /\ cur.update_info.versionCode = ClaimedVersionCode(cur.release.tag_name)
          /\ cur.update_info.version = ClaimedVersion(cur.release.tag_name)
    /\ \A d \in AllDirs :
          WrittenThisRun(d) =>
             /\ fs[d].update.versionCode =
                   ClaimedVersionCode(ReleaseOf(LastWriter(d)).tag_name)
             /\ fs[d].update.version = ClaimedVersion(ReleaseOf(LastWriter(d)).tag_name)

C7_Witness ==
    /\ pc = "done"
    /\ WrittenThisRun(NormDir(SrcDir(<<"ra">>)))
    /\ ReleaseOf(1).tag_name = TagV123
    /\ fs[NormDir(SrcDir(<<"ra">>))].update.versionCode = 123
    /\ fs[NormDir(SrcDir(<<"ra">>))].update.version = TagV123

\* C8: the selected archive is the first asset ending in ".zip" (and, with a
\* non-empty keyword, whose lower-cased name contains it); with none, the
\* lookup fails and nothing else happens for the entry; without repack the
\* manifest's zipUrl is the selected asset's browser_download_url.
C8_AssetSelection ==
    /\ \A k \in 1..Len(trace) :
          LET e == trace[k]
              cands == Candidates(e.resp.release.assets, config[e.i].keyword)
          IN  /\ e.ev = "lookup" => e.resp.status = 200 /\ cands # {}
              /\ (e.ev = "lookup_failed" /\ e.resp.kind = "http" /\ e.resp.status = 200) =>
                    cands = {} /\ EventsOf(e.i) = <<e>>
    /\ (pc = "repack" \/ (pc \in {"changelog", "manifest"} /\ ~config[idx].repack)) =>
          cur.zip_url =
             JStr(FirstCandidate(cur.release.assets, config[idx].keyword).browser_download_url)
    /\ \A d \in AllDirs :
          (WrittenThisRun(d) /\ ~config[LastWriter(d)].repack) =>
             fs[d].update.zipUrl =
                JStr(FirstCandidate(ReleaseOf(LastWriter(d)).assets,
                                    config[LastWriter(d)].keyword).browser_download_url)

C8_Witness ==
    /\ pc = "done"
    /\ Len(config) = 1
    /\ config[1].keyword = JStr(<<"a">>)
    /\ WrittenThisRun(NormDir(SrcDir(<<"ra">>)))
    /\ ReleaseOf(1).assets = <<AssetZipB, AssetZipA>>
    /\ fs[NormDir(SrcDir(<<"ra">>))].update.zipUrl = JStr(AssetZipA.browser_download_url)

\* C9: once the configuration is accepted, main ends normally having
\* attempted every entry, whatever failed on the way.
C9_EveryEntryAttempted ==
    /\ pc # "crashed"
    /\ pc = "done" /\ cfgkind = "ok" =>
          \A i \in 1..Len(config) : EventsOf(i) # <<>>

WriteEvs == {"repack", "changelog", "manifest"}

\* the directory a published raw URL names
UrlDir(url) == NormDir(SubSeq(url, 2, Len(url) - 2))

\* C10: all files of an entry go to one directory src/<repo>, the one its
\* published URLs name, and entries of different repositories never write
\* into the same directory.
C10_OneDirectoryPerRepository ==
    /\ \A k, m \in 1..Len(trace) :
          (trace[k].ev \in WriteEvs /\ trace[m].ev \in WriteEvs) =>
             /\ trace[k].i = trace[m].i => trace[k].dir = trace[m].dir
             /\ RepoOf(config[trace[k].i]) # RepoOf(config[trace[m].i]) =>
                   trace[k].dir # trace[m].dir
    /\ pc = "manifest" =>
          /\ UrlDir(cur.update_info.changelog.v) = NormDir(SrcDir(cur.repo))
          /\ config[idx].repack => UrlDir(cur.update_info.zipUrl.v) = NormDir(SrcDir(cur.repo))

====
